---------------------------- MODULE Spec2Model ----------------------------
(***************************************************************************)
(* nc-baxis-constant-surface-speed: the line-oriented transducer that      *)
(* inserts S (spindle speed) lines after B-axis angle changes.             *)
(*                                                                         *)
(* Representation                                                          *)
(*   - a line of text is a tuple of one-character strings;                 *)
(*   - Optional[T] is a tuple of length 0 (None) or 1 (<<v>>);             *)
(*   - angles are integers in tenths of a degree (AngleScale), so that the *)
(*     B literals of the catalogue (at most one fractional digit) and the  *)
(*     configured steps are exact;                                         *)
(*   - math.sin is a table of sines scaled by SinScale; the speed          *)
(*     S_ref*sin(ref)/sin(theta) is kept as an exact quotient of integers  *)
(*     and rounded from that quotient;                                     *)
(*   - the bytes of a line are a tuple of units: an ASCII character, or    *)
(*     one of three byte groups that UTF-8 and cp932 treat differently;    *)
(*     decoded text is a tuple of characters, named "U+XXXX" beyond ASCII. *)
(***************************************************************************)
EXTENDS Integers, Sequences, FiniteSets, TLC

VARIABLES
    cfg,              \* BcssConfig of the run (immutable after Init)
    newline_bytes,    \* file-level newline found by _detect_encoding_and_newline
    enc,              \* encoding found by _detect_encoding_and_newline
    encoding,         \* process_file's local `encoding`: enc, switched by the fallback
    processed_at,     \* Report.processed_at, the wall clock at Report.create
    pc,               \* process_file: "reading", "last" (unterminated line read),
                      \* "done", "raised" (an exception left process_file)
    inp,              \* lines read from fin so far: <<[text (the body's bytes), term]>>
    out,              \* lines written to fout: <<[text, nl, inserted]>>
    spindle_on,       \* Injector.spindle_on
    last_theta_quant, \* Injector.last_theta_quant : Optional
    pending,          \* Injector.pending : Optional[PendingInsert]
    last_s_rpm,       \* RpmModel.last_s_rpm : Optional
    report,           \* Report.detect / Report.changes / Report.s_range
    dec,              \* local `dec` of the last process_line call : Optional[RpmDecision]
    inserted,         \* local `inserted_bytes` of the last call : Optional[rpm]
    prev_run          \* input, output and report of an earlier process_file call on
                      \* the same file and configuration : Optional

vars == <<cfg, newline_bytes, enc, encoding, processed_at, pc, inp, out, spindle_on,
          last_theta_quant, pending, last_s_rpm, report, dec, inserted, prev_run>>

(***************************************************************************)
(* Bounds of the model.                                                    *)
(***************************************************************************)
MaxLines == 4
\* the longest text of the runs over every text of an alphabet
MaxLen == 4

AngleScale == 10
SinScale == 100000000

None == <<>>
Some(v) == <<v>>
IsNone(o) == o = <<>>
IsSome(o) == o # <<>>
Val(o) == o[1]

Abs(x) == IF x < 0 THEN -x ELSE x
Max2(a, b) == IF a >= b THEN a ELSE b

(***************************************************************************)
(* parser.py                                                               *)
(***************************************************************************)
Digits == {"0", "1", "2", "3", "4", "5", "6", "7", "8", "9"}
IsDigit(c) == c \in Digits
DigitVal(c) ==
    CASE c = "0" -> 0 [] c = "1" -> 1 [] c = "2" -> 2 [] c = "3" -> 3
      [] c = "4" -> 4 [] c = "5" -> 5 [] c = "6" -> 6 [] c = "7" -> 7
      [] c = "8" -> 8 [] c = "9" -> 9

\* s[i], or "" past the end of the text (the regex sees end of input there)
At(s, i) == IF i >= 1 /\ i <= Len(s) THEN s[i] ELSE ""

RECURSIVE StripFrom(_, _, _)
StripFrom(s, i, depth) ==
    IF i > Len(s) THEN <<>>
    ELSE IF s[i] = "(" THEN StripFrom(s, i + 1, depth + 1)
    ELSE IF s[i] = ")" THEN StripFrom(s, i + 1, IF depth > 0 THEN depth - 1 ELSE depth)
    ELSE IF depth = 0 THEN <<s[i]>> \o StripFrom(s, i + 1, depth)
    ELSE StripFrom(s, i + 1, depth)

\* strip_paren_comments dropping the parentheses and keeping what they enclose
strip_paren_comments_KeepsInside(s) == SelectSeq(s, LAMBDA ch : ch \notin {"(", ")"})

strip_paren_comments(s) == StripFrom(s, 1, 0)

\* M0?3(?!\d) / M0?5(?!\d) matching at position i
MatchM(s, i, d) ==
    /\ At(s, i) = "M"
    /\ \/ At(s, i + 1) = d /\ ~IsDigit(At(s, i + 2))
       \/ At(s, i + 1) = "0" /\ At(s, i + 2) = d /\ ~IsDigit(At(s, i + 3))

RE_M03(core) == \E i \in 1..Len(core) : MatchM(core, i, "3")
RE_M05(core) == \E i \in 1..Len(core) : MatchM(core, i, "5")

\* end (exclusive) of the greedy run of digits starting at i
RECURSIVE DigitsEnd(_, _)
DigitsEnd(s, i) == IF IsDigit(At(s, i)) THEN DigitsEnd(s, i + 1) ELSE i

\* int() of the digits s[i..j-1]
RECURSIVE IntOf(_, _, _)
IntOf(s, i, j) == IF j <= i THEN 0 ELSE IntOf(s, i, j - 1) * 10 + DigitVal(s[j - 1])

\* S(\d+): first match, group 1 as int
RE_S(core) ==
    LET hits == {i \in 1..Len(core) : At(core, i) = "S" /\ IsDigit(At(core, i + 1))}
    IN  IF hits = {} THEN None
        ELSE LET i == CHOOSE k \in hits : \A h \in hits : k <= h
             IN  Some(IntOf(core, i + 1, DigitsEnd(core, i + 1)))

\* B([+\-]?(?:\d+(?:\.\d*)?|\.\d+)) matching at position i
SignLen(s, i) == IF At(s, i + 1) \in {"+", "-"} THEN 1 ELSE 0
MatchB(s, i) ==
    /\ At(s, i) = "B"
    /\ LET n == i + 1 + SignLen(s, i)
       IN  \/ IsDigit(At(s, n))
           \/ At(s, n) = "." /\ IsDigit(At(s, n + 1))

\* float(group 1) in tenths of a degree
BValue(s, i) ==
    LET n    == i + 1 + SignLen(s, i)
        e    == DigitsEnd(s, n)
        int  == IntOf(s, n, e)
        frac == IF At(s, e) = "." /\ IsDigit(At(s, e + 1)) THEN DigitVal(s[e + 1]) ELSE 0
        mag  == int * AngleScale + frac
    IN  IF At(s, i + 1) = "-" THEN -mag ELSE mag

RE_B(core) ==
    LET hits == {i \in 1..Len(core) : MatchB(core, i)}
    IN  IF hits = {} THEN None
        ELSE Some(BValue(core, CHOOSE k \in hits : \A h \in hits : k <= h))

ParseText(line) ==
    LET core == strip_paren_comments(line)
    IN  [has_m03 |-> RE_M03(core),
         has_m05 |-> RE_M05(core),
         b_deg   |-> RE_B(core),
         s_rpm   |-> RE_S(core)]

\* Line texts the input is drawn from.
L_G97S8000M03 == <<"G", "9", "7", "S", "8", "0", "0", "0", "M", "0", "3">>
L_M3B12_3 == <<"M", "3", "B", "1", "2", ".", "3">>
L_B12_8 == <<"X", "0", "Y", "0", "B", "1", "2", ".", "8">>
L_B13_1 == <<"X", "0", "Y", "0", "B", "1", "3", ".", "1">>
L_B89_5 == <<"B", "8", "9", ".", "5">>
L_G1X1 == <<"G", "1", "X", "1">>
L_M05 == <<"M", "0", "5">>
L_S8010 == <<"S", "8", "0", "1", "0">>
L_CommentS == <<"G", "1", "X", "2", "(", "S", "5", "0", "0", ")">>
L_StopStartB == <<"M", "0", "5", "B", "1", "4", ".", "0", "M", "0", "3">>
\* the remaining lines of the ten-line file of test_e2e_tiny
L_B12_3 == <<"X", "0", "Y", "0", "B", "1", "2", ".", "3">>
L_G1X2 == <<"G", "1", "X", "2">>
L_G1X3 == <<"G", "1", "X", "3">>
L_B14_0 == <<"X", "0", "Y", "0", "B", "1", "4", ".", "0">>
L_G1X4 == <<"G", "1", "X", "4">>
\* a start token followed by a stop token
L_StartStop == <<"M", "0", "3", "M", "0", "5">>

Catalogue ==
    {L_G97S8000M03, L_M3B12_3, L_B12_8, L_B13_1, L_B89_5, L_G1X1, L_M05,
     L_S8010, L_CommentS, L_StopStartB}

\* the texts of the runs with mixed terminators
NlCatalogue == {L_G97S8000M03, L_B13_1, L_G1X1, L_S8010}

\* the ten input lines of test_e2e_tiny, in order
TinyFile ==
    <<L_G97S8000M03, L_B12_3, L_G1X1, L_B12_8, L_G1X2,
      L_B13_1, L_G1X3, L_M05, L_B14_0, L_G1X4>>

\* the texts of the runs about the spindle tokens
SpindleCatalogue ==
    {L_StartStop, L_StopStartB, L_G97S8000M03, L_M05, L_G1X1, L_B13_1}

\* Byte groups that are not ASCII, each inside a comment and followed by ")":
\* 82 A0 is a character in cp932 and invalid in UTF-8, E3 81 82 is a character
\* in UTF-8 and invalid in cp932, 82 alone is invalid in both.
L_Sjis == <<"G", "1", "X", "1", "(", "x82xA0", ")">>
L_Utf8 == <<"G", "1", "X", "1", "(", "xE3x81x82", ")">>
L_Bad == <<"G", "1", "X", "1", "(", "x82", ")">>

\* the lines of the runs about encodings
EncCatalogue == {L_G1X1, L_Sjis, L_Utf8, L_Bad, L_G97S8000M03, L_B13_1}

Encodings == {"utf-8", "cp932"}

\* bytes.decode(e, errors="replace") of one unit: its characters, U+FFFD for
\* each undecodable byte sequence
DecodeUnit(u, e) ==
    IF u = "x82xA0" THEN (IF e = "cp932" THEN <<"U+3042">> ELSE <<"U+FFFD", "U+FFFD">>)
    ELSE IF u = "xE3x81x82" THEN (IF e = "utf-8" THEN <<"U+3042">> ELSE <<"U+7E3A", "U+FFFD">>)
    ELSE IF u = "x82" THEN <<"U+FFFD">>
    ELSE <<u>>

\* the unit decodes under errors="strict"
StrictUnit(u, e) ==
    IF u = "x82xA0" THEN e = "cp932"
    ELSE IF u = "xE3x81x82" THEN e = "utf-8"
    ELSE u # "x82"

RECURSIVE DecodeFrom(_, _, _)
DecodeFrom(body, i, e) ==
    IF i > Len(body) THEN <<>>
    ELSE DecodeUnit(body[i], e) \o DecodeFrom(body, i + 1, e)

\* body.decode(e, errors="replace"); equal to the strict decode when that succeeds
DecodeReplace(body, e) == DecodeFrom(body, 1, e)
\* body.decode(e, errors="strict") does not raise
StrictOk(body, e) == \A i \in 1..Len(body) : StrictUnit(body[i], e)

\* str.encode(e, errors="strict") of one character
EncodeChar(ch, e) ==
    IF ch = "U+3042" THEN (IF e = "utf-8" THEN "xE3x81x82" ELSE "x82xA0")
    ELSE IF ch = "U+7E3A" THEN (IF e = "utf-8" THEN "xE7xB8xBA" ELSE "xE3x81")
    ELSE IF ch = "U+FFFD" THEN "xEFxBFxBD"
    ELSE ch

\* text.encode(e, errors="strict") does not raise: cp932 has no U+FFFD
CanEncode(text, e) == e = "utf-8" \/ \A i \in 1..Len(text) : text[i] # "U+FFFD"
Encode(text, e) == [i \in 1..Len(text) |-> EncodeChar(text[i], e)]

\* the texts of the runs with a non-positive step and rounding unit
DegradedCatalogue == {L_G97S8000M03, L_M3B12_3, L_B12_8, L_B13_1, L_G1X1}

L_S7000M05 == <<"S", "7", "0", "0", "0", "M", "0", "5">>

\* the texts of the runs about explicit S tokens: with a start token, alone,
\* and with a stop token
SpeedCatalogue == {L_G97S8000M03, L_S8010, L_S7000M05, L_B13_1, L_G1X1}

L_B0_5 == <<"B", "0", ".", "5">>

\* the texts of the runs about the baseline angle: B lines at the baseline
\* of each configuration of these runs
RefCatalogue == {L_G97S8000M03, L_B0_5, L_B12_3, L_G1X1}

\* the characters of the runs about comments: the two parentheses and the
\* letters and digits of the tokens M3, M5, S<digits>, B<digits>
StripAlphabet == {"(", ")", "M", "S", "B", "3", "5"}

\* every text of at most MaxLen characters over that alphabet
StripLines == UNION {[1..n -> StripAlphabet] : n \in 0..MaxLen}

\* the texts of the catalogues, whose tokens are recognized once
Texts ==
    Catalogue \cup {TinyFile[i] : i \in 1..Len(TinyFile)} \cup SpindleCatalogue
    \cup SpeedCatalogue \cup RefCatalogue
    \cup {DecodeReplace(l, e) : l \in EncCatalogue, e \in Encodings}

\* parse_line over those texts, evaluated once per text
ParsedLine == [l \in Texts |-> ParseText(l)]

\* parse_line: the cached result for a catalogue text, else computed
parse_line(line) == IF line \in Texts THEN ParsedLine[line] ELSE ParseText(line)

(***************************************************************************)
(* config.py: the configurations the model runs under.  Angles are in      *)
(* tenths of a degree, speeds in rpm.                                      *)
(***************************************************************************)
BcssConfig ==
    [tool_d_mm |-> 20, theta_ref_deg |-> 120, s_ref_rpm |-> 8000,
     theta_step_deg |-> 10, theta_min_deg |-> 10,
     s_min_rpm |-> 1000, s_max_rpm |-> 20000, s_round_unit_rpm |-> 10,
     deadband_rpm |-> 50, invert_b_to_theta |-> TRUE, mode |-> "relative",
     vc_m_per_min |-> 0]

\* test_smoke.py's configuration with angle inversion off (the spec's scenario)
CfgNoInvert == [BcssConfig EXCEPT !.invert_b_to_theta = FALSE]
\* a narrow clamp window, so that both clamp branches are taken
CfgTight == [CfgNoInvert EXCEPT !.s_min_rpm = 7000, !.s_max_rpm = 7390]
\* non-positive quantization step and rounding unit
CfgDegraded == [CfgNoInvert EXCEPT !.theta_step_deg = 0, !.s_round_unit_rpm = 0]
\* negative quantization step and rounding unit
CfgNegative == [CfgNoInvert EXCEPT !.theta_step_deg = -10, !.s_round_unit_rpm = -10]
\* a baseline angle below the safety minimum angle
CfgLowRef == [CfgNoInvert EXCEPT !.theta_ref_deg = 5]
\* mode B
CfgVc == [BcssConfig EXCEPT !.mode = "vc_absolute", !.vc_m_per_min = 100]
\* an inverted clamp window (s_min > s_max)
CfgBadClamp == [CfgNoInvert EXCEPT !.s_min_rpm = 8000, !.s_max_rpm = 7390]

Configs == {BcssConfig, CfgNoInvert, CfgTight, CfgDegraded, CfgVc, CfgBadClamp}

(***************************************************************************)
(* rpm_model.py                                                            *)
(***************************************************************************)
\* math.sin(math.radians(k)) * SinScale, rounded, for k = 1 .. 90 degrees
SinTable ==
    <<
      1745241, 3489950, 5233596, 6975647, 8715574, 10452846,
      12186934, 13917310, 15643447, 17364818, 19080900, 20791169,
      22495105, 24192190, 25881905, 27563736, 29237170, 30901699,
      32556815, 34202014, 35836795, 37460659, 39073113, 40673664,
      42261826, 43837115, 45399050, 46947156, 48480962, 50000000,
      51503807, 52991926, 54463904, 55919290, 57357644, 58778525,
      60181502, 61566148, 62932039, 64278761, 65605903, 66913061,
      68199836, 69465837, 70710678, 71933980, 73135370, 74314483,
      75470958, 76604444, 77714596, 78801075, 79863551, 80901699,
      81915204, 82903757, 83867057, 84804810, 85716730, 86602540,
      87461971, 88294759, 89100652, 89879405, 90630779, 91354546,
      92050485, 92718385, 93358043, 93969262, 94551858, 95105652,
      95630476, 96126170, 96592583, 97029573, 97437006, 97814760,
      98162718, 98480775, 98768834, 99026807, 99254615, 99452190,
      99619470, 99756405, 99862953, 99939083, 99984770, 100000000
    >>

\* the same for the angles of the catalogue that are no whole degree,
\* keyed by tenths of a degree
SinTableTenths ==
    5 :> 872654 @@ 123 :> 21303039 @@ 128 :> 22154850 @@ 131 :> 22665131 @@
    769 :> 97397597 @@ 772 :> 97514935 @@ 777 :> 97704557 @@ 895 :> 99996192

\* math.sin(math.radians(theta_deg / AngleScale)) * SinScale
Sin(theta_deg) ==
    IF theta_deg = 0 THEN 0
    ELSE IF theta_deg % AngleScale = 0 THEN SinTable[theta_deg \div AngleScale]
    ELSE SinTableTenths[theta_deg]

\* floor_step rounding to the nearest step instead of flooring
floor_step_Nearest(value, step) ==
    IF step <= 0 THEN value ELSE ((2 * value + step) \div (2 * step)) * step

\* floor_step giving 0 for a non-positive step
floor_step_ZeroOnBadStep(value, step) ==
    IF step <= 0 THEN 0 ELSE (value \div step) * step

floor_step(value, step) ==
    IF step <= 0 THEN value ELSE (value \div step) * step

_b_to_theta(b_deg) ==
    LET theta == 90 * AngleScale - b_deg
    IN  IF theta < 0 THEN 0 ELSE theta

_theta_ref_used(c) ==
    IF c.invert_b_to_theta THEN _b_to_theta(c.theta_ref_deg) ELSE c.theta_ref_deg

_sin_ref(c) == Sin(_theta_ref_used(c))

quantize_theta(c, theta_deg) == floor_step(theta_deg, c.theta_step_deg)

\* A speed is kept as the exact quotient mul * num / den (den > 0).
\* MulDiv gives q, r with mul * num = q * d + r and 0 <= r < d, doubling
\* along the bits of mul so that no intermediate exceeds 2 * d + num.
MulDivStep(h, bit, num, d) ==
    [q |-> 2 * h.q + (2 * h.r + bit * num) \div d,
     r |-> (2 * h.r + bit * num) % d]

RECURSIVE MulDiv(_, _, _)
MulDiv(mul, num, d) ==
    IF mul = 0 THEN [q |-> 0, r |-> 0]
    ELSE MulDivStep(MulDiv(mul \div 2, num, d), mul % 2, num, d)

\* Python's round of q + r/d: ties go to the even integer
RoundHalfEven(md, d) ==
    IF 2 * md.r > d THEN md.q + 1
    ELSE IF 2 * md.r = d /\ md.q % 2 = 1 THEN md.q + 1
    ELSE md.q

\* A speed beyond the model's integers: what the epsilon guards produce
\* (sine below 1e-12, effective diameter below 1e-9 mm).
RpmHuge == 1000000000

\* line 89: int(round(rpm_raw / unit) * unit)
RoundToUnit(rpm_raw, unit) ==
    IF rpm_raw.mul >= RpmHuge THEN RpmHuge
    ELSE RoundHalfEven(MulDiv(rpm_raw.mul, rpm_raw.num, rpm_raw.den * unit),
                       rpm_raw.den * unit) * unit

\* Clamp without the upper bound
Clamp_NoUpper(c, theta_used, rpm_raw, rpm_rounded) ==
    [theta_used_deg |-> theta_used,
     rpm_raw        |-> rpm_raw,
     rpm_rounded    |-> rpm_rounded,
     rpm_clamped    |-> IF rpm_rounded < c.s_min_rpm THEN c.s_min_rpm ELSE rpm_rounded,
     clamped        |-> rpm_rounded < c.s_min_rpm]

\* Clamp that does not flag a clamp at the upper bound
Clamp_UnflaggedUpper(c, theta_used, rpm_raw, rpm_rounded) ==
    [theta_used_deg |-> theta_used,
     rpm_raw        |-> rpm_raw,
     rpm_rounded    |-> rpm_rounded,
     rpm_clamped    |-> IF rpm_rounded < c.s_min_rpm
                        THEN (IF c.s_min_rpm > c.s_max_rpm THEN c.s_max_rpm ELSE c.s_min_rpm)
                        ELSE (IF rpm_rounded > c.s_max_rpm THEN c.s_max_rpm ELSE rpm_rounded),
     clamped        |-> rpm_rounded < c.s_min_rpm]

\* lines 91-107: clamp, and the decision record
Clamp(c, theta_used, rpm_raw, rpm_rounded) ==
    LET lo == IF rpm_rounded < c.s_min_rpm THEN c.s_min_rpm ELSE rpm_rounded
        hi == IF lo > c.s_max_rpm THEN c.s_max_rpm ELSE lo
    IN  [theta_used_deg |-> theta_used,
         rpm_raw        |-> rpm_raw,
         rpm_rounded    |-> rpm_rounded,
         rpm_clamped    |-> hi,
         clamped        |-> (rpm_rounded < c.s_min_rpm) \/ (lo > c.s_max_rpm)]

_postprocess(c, theta_used, rpm_raw) ==
    Clamp(c, theta_used, rpm_raw, RoundToUnit(rpm_raw, Max2(1, c.s_round_unit_rpm)))

\* S(theta) = S_ref * sin(theta_ref) / sin(theta)
_compute_mode_a_relative(c, theta_deg) ==
    LET theta_used == Max2(theta_deg, c.theta_min_deg)
        sin_theta  == Sin(theta_used)
        rpm_raw    == IF Abs(sin_theta) < 1 THEN [mul |-> RpmHuge, num |-> 1, den |-> 1]
                      ELSE [mul |-> c.s_ref_rpm, num |-> _sin_ref(c), den |-> sin_theta]
    IN  _postprocess(c, theta_used, rpm_raw)

\* S(theta) = 1000*Vc / (pi * D_tool * sin(theta)), pi taken as 355/113;
\* 1000*Vc/(pi*D_tool) is carried with two decimals.
_compute_mode_b_vc_absolute(c, theta_deg) ==
    LET theta_used == Max2(theta_deg, c.theta_min_deg)
        sin_theta  == IF Abs(Sin(theta_used)) < 1 THEN 0 ELSE Sin(theta_used)
        d_eff      == c.tool_d_mm * sin_theta
        rpm_raw    == IF d_eff < 1 THEN [mul |-> RpmHuge, num |-> 1, den |-> 1]
                      ELSE [mul |-> (1000 * c.vc_m_per_min * 113 * 100)
                                      \div (355 * c.tool_d_mm),
                            num |-> SinScale \div 100,
                            den |-> sin_theta]
    IN  _postprocess(c, theta_used, rpm_raw)

compute_s_for_theta(c, theta_deg) ==
    IF c.mode = "vc_absolute" THEN _compute_mode_b_vc_absolute(c, theta_deg)
    ELSE _compute_mode_a_relative(c, theta_deg)

\* should_insert with a strict comparison
should_insert_Strict(last, next_rpm, c) ==
    IF IsNone(last) THEN TRUE
    ELSE Abs(next_rpm - Val(last)) > c.deadband_rpm

\* should_insert without the deadband
should_insert_Always(last, next_rpm, c) == TRUE

\* should_insert that depends on the time of the run
should_insert_Timed(last, next_rpm, c) ==
    /\ processed_at = "t0"
    /\ \/ IsNone(last)
       \/ Abs(next_rpm - Val(last)) >= c.deadband_rpm

should_insert(last, next_rpm, c) ==
    IF IsNone(last) THEN TRUE
    ELSE Abs(next_rpm - Val(last)) >= c.deadband_rpm

(***************************************************************************)
(* report.py                                                               *)
(***************************************************************************)
SRangeUpdate(r, s) ==
    [s_min |-> IF IsNone(r.s_min) \/ s < Val(r.s_min) THEN Some(s) ELSE r.s_min,
     s_max |-> IF IsNone(r.s_max) \/ s > Val(r.s_max) THEN Some(s) ELSE r.s_max]

ReportCreate ==
    [detect  |-> [total_lines |-> 0, b_lines |-> 0, spindle_on_lines |-> 0],
     changes |-> [inserted_s_lines |-> 0, skipped_nextline_has_s |-> 0,
                  skipped_deadband |-> 0, clamped_count |-> 0,
                  theta_min_applied_count |-> 0, pending_at_eof |-> 0],
     s_range |-> [s_min |-> None, s_max |-> None]]

\* the moments a run may start at
Clock == {"t0", "t1"}

\* Report.to_dict of a report r created at time t for configuration c; the
\* three paths are those of the call's arguments and are left out
to_dict(r, t, c) ==
    [processed_at |-> t, config |-> c,
     detect |-> r.detect, changes |-> r.changes, s_range |-> r.s_range]

(***************************************************************************)
(* injector.py                                                             *)
(***************************************************************************)
\* The Injector, its RpmModel's memory and its Report, with the locals
\* `dec` and `inserted_bytes` of the call in progress.
Injector ==
    [spindle_on |-> spindle_on, last_theta_quant |-> last_theta_quant,
     pending |-> pending, last_s_rpm |-> last_s_rpm, report |-> report,
     dec |-> None, inserted |-> None]

\* ResolveComputed with update_last_s moved out of the deadband branch
ResolveComputed_RecordsSkipped(c, w, d) ==
    LET w1 == [w EXCEPT
                 !.dec = Some(d),
                 !.report.changes.theta_min_applied_count =
                     IF d.theta_used_deg > Val(w.pending).theta_quant_deg
                     THEN @ + 1 ELSE @,
                 !.report.changes.clamped_count = IF d.clamped THEN @ + 1 ELSE @,
                 !.pending = None,
                 !.last_s_rpm = Some(d.rpm_clamped)]
    IN  IF should_insert(w.last_s_rpm, d.rpm_clamped, c)
        THEN [w1 EXCEPT
                !.inserted = Some(d.rpm_clamped),
                !.report.changes.inserted_s_lines = @ + 1,
                !.report.s_range = SRangeUpdate(@, d.rpm_clamped)]
        ELSE [w1 EXCEPT !.report.changes.skipped_deadband = @ + 1]

\* ResolveComputed that does not count an insertion the deadband suppresses
ResolveComputed_UncountedSkip(c, w, d) ==
    LET w1 == [w EXCEPT
                 !.dec = Some(d),
                 !.report.changes.theta_min_applied_count =
                     IF d.theta_used_deg > Val(w.pending).theta_quant_deg
                     THEN @ + 1 ELSE @,
                 !.report.changes.clamped_count = IF d.clamped THEN @ + 1 ELSE @,
                 !.pending = None]
    IN  IF should_insert(w.last_s_rpm, d.rpm_clamped, c)
        THEN [w1 EXCEPT
                !.inserted = Some(d.rpm_clamped),
                !.report.changes.inserted_s_lines = @ + 1,
                !.report.s_range = SRangeUpdate(@, d.rpm_clamped),
                !.last_s_rpm = Some(d.rpm_clamped)]
        ELSE w1

\* lines 59-72: the counters of a computed decision d, then the deadband check
ResolveComputed(c, w, d) ==
    LET w1 == [w EXCEPT
                 !.dec = Some(d),
                 !.report.changes.theta_min_applied_count =
                     IF d.theta_used_deg > Val(w.pending).theta_quant_deg
                     THEN @ + 1 ELSE @,
                 !.report.changes.clamped_count = IF d.clamped THEN @ + 1 ELSE @,
                 !.pending = None]
    IN  IF should_insert(w.last_s_rpm, d.rpm_clamped, c)
        THEN [w1 EXCEPT
                !.inserted = Some(d.rpm_clamped),
                !.report.changes.inserted_s_lines = @ + 1,
                !.report.s_range = SRangeUpdate(@, d.rpm_clamped),
                !.last_s_rpm = Some(d.rpm_clamped)]
        ELSE [w1 EXCEPT !.report.changes.skipped_deadband = @ + 1]

\* ResolvePending without the test for an S token on the current line
ResolvePending_IgnoresS(c, w, parsed) ==
    IF IsSome(w.pending) /\ w.spindle_on
    THEN ResolveComputed(c, w,
             compute_s_for_theta(c, Val(w.pending).theta_quant_deg))
    ELSE w

\* ResolvePending that leaves the entry in the slot
ResolvePending_KeepsPending(c, w, parsed) ==
    IF IsSome(w.pending) /\ w.spindle_on
    THEN
        IF IsSome(parsed.s_rpm)
        THEN [w EXCEPT !.report.changes.skipped_nextline_has_s = @ + 1]
        ELSE [ResolveComputed(c, w,
                  compute_s_for_theta(c, Val(w.pending).theta_quant_deg))
              EXCEPT !.pending = w.pending]
    ELSE w

\* lines 49-75: a pending insertion is handled before the current line is written
ResolvePending(c, w, parsed) ==
    IF IsSome(w.pending) /\ w.spindle_on
    THEN
        IF IsSome(parsed.s_rpm)
        THEN [w EXCEPT !.report.changes.skipped_nextline_has_s = @ + 1,
                       !.pending = None]
        ELSE ResolveComputed(c, w,
                 compute_s_for_theta(c, Val(w.pending).theta_quant_deg))
    ELSE w

\* _set_spindle_state without reset_last_s
_set_spindle_state_NoReset(w, has_m03, has_m05) ==
    IF has_m05 THEN [w EXCEPT !.spindle_on = FALSE]
    ELSE IF has_m03 THEN [w EXCEPT !.spindle_on = TRUE]
    ELSE w

\* _set_spindle_state where a start token on the line wins
_set_spindle_state_StartWins(w, has_m03, has_m05) ==
    IF has_m03 THEN [w EXCEPT !.spindle_on = TRUE]
    ELSE IF has_m05 THEN [w EXCEPT !.spindle_on = FALSE, !.last_s_rpm = None]
    ELSE w

\* _set_spindle_state where a stop token also forgets the last quantized angle
_set_spindle_state_ForgetsAngle(w, has_m03, has_m05) ==
    IF has_m05
    THEN [w EXCEPT !.spindle_on = FALSE, !.last_s_rpm = None, !.last_theta_quant = None]
    ELSE IF has_m03 THEN [w EXCEPT !.spindle_on = TRUE]
    ELSE w

_set_spindle_state(w, has_m03, has_m05) ==
    LET w1 == IF has_m03 THEN [w EXCEPT !.spindle_on = TRUE] ELSE w
    IN  IF has_m05 THEN [w1 EXCEPT !.spindle_on = FALSE, !.last_s_rpm = None]
        ELSE w1

\* CountSpindleOn counting every line
CountSpindleOn_EveryLine(w) == [w EXCEPT !.report.detect.spindle_on_lines = @ + 1]

\* lines 80-81
CountSpindleOn(w) ==
    IF w.spindle_on THEN [w EXCEPT !.report.detect.spindle_on_lines = @ + 1] ELSE w

\* AdoptExplicitS without the spindle test
AdoptExplicitS_AlsoWhenOff(w, parsed) ==
    IF IsSome(parsed.s_rpm)
    THEN [w EXCEPT !.last_s_rpm = Some(Val(parsed.s_rpm)),
                   !.report.s_range = SRangeUpdate(@, Val(parsed.s_rpm))]
    ELSE w

\* lines 83-86: an explicit S while the spindle is on is the current S
AdoptExplicitS(w, parsed) ==
    IF w.spindle_on /\ IsSome(parsed.s_rpm)
    THEN [w EXCEPT !.last_s_rpm = Some(Val(parsed.s_rpm)),
                   !.report.s_range = SRangeUpdate(@, Val(parsed.s_rpm))]
    ELSE w

\* lines 92-96: B to the internal angle
ThetaOfB(c, b_deg) ==
    IF c.invert_b_to_theta
    THEN (IF 90 * AngleScale - b_deg < 0 THEN 0 ELSE 90 * AngleScale - b_deg)
    ELSE b_deg

\* ScheduleQuantized without the comparison with the last quantized angle
ScheduleQuantized_Always(w, theta_q) ==
    [w EXCEPT
       !.report.detect.b_lines = @ + 1,
       !.pending = Some([theta_quant_deg |-> theta_q]),
       !.last_theta_quant = Some(theta_q)]

\* lines 100-103: the pending entry and the last quantized angle
ScheduleQuantized(w, theta_q) ==
    [w EXCEPT
       !.report.detect.b_lines = @ + 1,
       !.pending = IF IsNone(w.last_theta_quant) \/ theta_q # Val(w.last_theta_quant)
                   THEN Some([theta_quant_deg |-> theta_q]) ELSE @,
       !.last_theta_quant = Some(theta_q)]

\* ScheduleInsert without the spindle test
ScheduleInsert_IgnoresSpindle(c, w, parsed) ==
    IF IsSome(parsed.b_deg)
    THEN ScheduleQuantized(w, quantize_theta(c, ThetaOfB(c, Val(parsed.b_deg))))
    ELSE w

\* lines 88-103: schedule an insertion if B changes (only while the spindle is on)
ScheduleInsert(c, w, parsed) ==
    IF w.spindle_on /\ IsSome(parsed.b_deg)
    THEN ScheduleQuantized(w, quantize_theta(c, ThetaOfB(c, Val(parsed.b_deg))))
    ELSE w

\* ProcessParsed with the spindle state updated before the pending insertion
\* is resolved
ProcessParsed_SpindleFirst(c, w, parsed) ==
    ScheduleInsert(c,
        AdoptExplicitS(
            CountSpindleOn(
                ResolvePending(c,
                    _set_spindle_state(
                        [w EXCEPT !.report.detect.total_lines = @ + 1],
                        parsed.has_m03, parsed.has_m05),
                    parsed)),
            parsed),
        parsed)

\* ProcessParsed scheduling the next insertion before the spindle state is updated
ProcessParsed_ScheduleFirst(c, w, parsed) ==
    AdoptExplicitS(
        CountSpindleOn(
            _set_spindle_state(
                ScheduleInsert(c,
                    ResolvePending(c,
                        [w EXCEPT !.report.detect.total_lines = @ + 1],
                        parsed),
                    parsed),
                parsed.has_m03, parsed.has_m05)),
        parsed)

\* lines 44-103, in the order of the code: count the line, resolve the
\* pending insertion, update the spindle state, count, adopt, schedule
ProcessParsed(c, w, parsed) ==
    ScheduleInsert(c,
        AdoptExplicitS(
            CountSpindleOn(
                _set_spindle_state(
                    ResolvePending(c,
                        [w EXCEPT !.report.detect.total_lines = @ + 1],
                        parsed),
                    parsed.has_m03, parsed.has_m05)),
            parsed),
        parsed)

process_line(c, w, raw_text) == ProcessParsed(c, w, parse_line(raw_text))

\* finalize that empties the slot without counting
finalize_NoCount(w) == [w EXCEPT !.pending = None]

finalize(w) ==
    IF IsSome(w.pending)
    THEN [w EXCEPT !.report.changes.pending_at_eof = @ + 1, !.pending = None]
    ELSE w

(***************************************************************************)
(* processor.py                                                            *)
(***************************************************************************)
\* the terminator of a line as readline returns it; "" only on the last line
Terminators == {"\r\n", "\n", ""}

\* lines 20-26: "\r\n" if the sample holds one, else "\n"
DetectNewline(lines) ==
    IF \E i \in 1..Len(lines) : lines[i].term = "\r\n" THEN "\r\n" ELSE "\n"

\* lines 28-39: UTF-8 if the sample decodes strictly, else cp932 if it does,
\* else UTF-8
DetectEncoding(lines) ==
    IF \A i \in 1..Len(lines) : StrictOk(lines[i].text, "utf-8") THEN "utf-8"
    ELSE IF \A i \in 1..Len(lines) : StrictOk(lines[i].text, "cp932") THEN "cp932"
    ELSE "utf-8"

\* line 85
Alt(e) == IF e = "utf-8" THEN "cp932" ELSE "utf-8"

\* lines 80-87: the strict decode, else the other encoding with replacement,
\* which then becomes the current encoding
Decode(body, e) ==
    IF StrictOk(body, e) THEN [text |-> DecodeReplace(body, e), encoding |-> e]
    ELSE [text |-> DecodeReplace(body, Alt(e)), encoding |-> Alt(e)]

\* str(int): the decimal digits of n, with a leading "-" below zero
DigitChar(d) ==
    CASE d = 0 -> "0" [] d = 1 -> "1" [] d = 2 -> "2" [] d = 3 -> "3" [] d = 4 -> "4"
      [] d = 5 -> "5" [] d = 6 -> "6" [] d = 7 -> "7" [] d = 8 -> "8" [] d = 9 -> "9"

RECURSIVE NatChars(_)
NatChars(n) ==
    IF n < 10 THEN <<DigitChar(n)>> ELSE NatChars(n \div 10) \o <<DigitChar(n % 10)>>

IntChars(n) == IF n < 0 THEN <<"-">> \o NatChars(-n) ELSE NatChars(n)

\* injector.py line 66: f"S{dec.rpm_clamped}"
inserted_text(rpm) == <<"S">> \o IntChars(rpm)

\* fout_write with the two writes swapped
fout_write_InsertAfter(fout, ins, raw_text, nl) ==
    fout
    \o <<[text |-> raw_text, nl |-> nl, inserted |-> FALSE]>>
    \o (IF IsSome(ins)
        THEN <<[text |-> inserted_text(Val(ins)), nl |-> nl, inserted |-> TRUE]>>
        ELSE <<>>)

\* fout_write ending an inserted line with the file's detected newline
fout_write_DetectedNl(fout, ins, raw_text, nl) ==
    fout
    \o (IF IsSome(ins)
        THEN <<[text |-> inserted_text(Val(ins)), nl |-> newline_bytes, inserted |-> TRUE]>>
        ELSE <<>>)
    \o <<[text |-> raw_text, nl |-> nl, inserted |-> FALSE]>>

\* lines 91-93: the inserted line, if any, is written before the current line
fout_write(fout, ins, raw_text, nl) ==
    fout
    \o (IF IsSome(ins)
        THEN <<[text |-> inserted_text(Val(ins)), nl |-> nl, inserted |-> TRUE]>>
        ELSE <<>>)
    \o <<[text |-> raw_text, nl |-> nl, inserted |-> FALSE]>>

\* lines 69-78: the line's own terminator, else the detected newline
NewlineOf(term) == IF term = "" THEN newline_bytes ELSE term

\* lines 64-93: one iteration of the read loop on a line of bytes `body`;
\* process_line raises at its last statement (injector.py 105) when the
\* decoded text cannot be encoded, after the Injector has been updated and
\* before anything is written
ReadStep(body, term) ==
    /\ pc = "reading"
    /\ term = "\r\n" => newline_bytes = "\r\n"
    /\ \E d \in {Decode(body, encoding)} :
       \E w \in {process_line(cfg, Injector, d.text)} :
           /\ inp' = Append(inp, [text |-> body, term |-> term])
           /\ encoding' = d.encoding
           /\ IF CanEncode(d.text, d.encoding)
              THEN /\ out' = fout_write(out, w.inserted, Encode(d.text, d.encoding),
                                        NewlineOf(term))
                   /\ pc' = IF term = "" THEN "last" ELSE "reading"
              ELSE /\ out' = out
                   /\ pc' = "raised"
           /\ spindle_on' = w.spindle_on
           /\ last_theta_quant' = w.last_theta_quant
           /\ pending' = w.pending
           /\ last_s_rpm' = w.last_s_rpm
           /\ report' = w.report
           /\ dec' = w.dec
           /\ inserted' = w.inserted
    /\ UNCHANGED <<cfg, newline_bytes, enc, processed_at, prev_run>>

\* lines 66-67 and 95-98: readline returns b"", the loop ends, finalize runs
Finalize ==
    /\ pc \in {"reading", "last"}
    /\ newline_bytes = DetectNewline(inp)
    /\ enc = DetectEncoding(inp)
    /\ \E w \in {finalize(Injector)} :
           /\ pending' = w.pending
           /\ report' = w.report
    /\ pc' = "done"
    /\ dec' = None
    /\ inserted' = None
    /\ UNCHANGED <<cfg, newline_bytes, enc, encoding, processed_at, inp, out,
                   spindle_on, last_theta_quant, last_s_rpm, prev_run>>

\* State after _detect_encoding_and_newline, Report.create, RpmModel(cfg) and
\* Injector(rpm_model, report) in a first run
InitRun(cfgs, encs) ==
    /\ cfg \in cfgs
    /\ newline_bytes \in {"\r\n", "\n"}
    /\ enc \in encs
    /\ encoding = enc
    /\ processed_at = "t0"
    /\ prev_run = None
    /\ pc = "reading"
    /\ inp = <<>>
    /\ out = <<>>
    /\ spindle_on = FALSE
    /\ last_theta_quant = None
    /\ pending = None
    /\ last_s_rpm = None
    /\ report = ReportCreate
    /\ dec = None
    /\ inserted = None

\* the same for a file of ASCII lines
InitWith(cfgs) == InitRun(cfgs, {"utf-8"})

\* the read loop over files of at most MaxLines lines
ReadLine(raw_text, term) ==
    /\ Len(inp) < MaxLines
    /\ ReadStep(raw_text, term)

\* Files of LF-terminated lines over the whole catalogue, every configuration.
Init == InitWith(Configs) /\ newline_bytes = "\n"

Next ==
    \/ \E l \in Catalogue : ReadLine(l, "\n")
    \/ Finalize

Spec == Init /\ [][Next]_vars

\* Files of mixed terminators (CRLF, LF, none on the last line) under the
\* default configuration.
InitNl == InitWith({BcssConfig})

NextNl ==
    \/ \E l \in NlCatalogue, t \in Terminators : ReadLine(l, t)
    \/ Finalize

SpecNl == InitNl /\ [][NextNl]_vars

\* Files of LF-terminated lines with start and stop tokens in both orders,
\* under the default configuration.
InitSpindle == InitWith({BcssConfig}) /\ newline_bytes = "\n"

NextSpindle ==
    \/ \E l \in SpindleCatalogue : ReadLine(l, "\n")
    \/ Finalize

SpecSpindle == InitSpindle /\ [][NextSpindle]_vars

\* Files of LF-terminated lines under the two configurations whose
\* quantization step and rounding unit are not positive.
InitDegraded == InitWith({CfgDegraded, CfgNegative}) /\ newline_bytes = "\n"

NextDegraded ==
    \/ \E l \in DegradedCatalogue : ReadLine(l, "\n")
    \/ Finalize

SpecDegraded == InitDegraded /\ [][NextDegraded]_vars

\* Files of LF-terminated lines with bytes beyond ASCII, under the default
\* configuration.
InitEnc == InitRun({BcssConfig}, Encodings) /\ newline_bytes = "\n"

NextEnc ==
    \/ \E l \in EncCatalogue : ReadLine(l, "\n")
    \/ Finalize

SpecEnc == InitEnc /\ [][NextEnc]_vars

\* Two calls of process_file on the same file with the same configuration:
\* the first call's input, output and report are kept, the second call
\* starts from fresh objects at a time of its own and reads the same bytes.
ReadFirst(body, term) == IsNone(prev_run) /\ ReadLine(body, term)

FinalizeFirst == IsNone(prev_run) /\ Finalize

Rerun ==
    /\ pc = "done"
    /\ IsNone(prev_run)
    /\ prev_run' = Some([inp |-> inp, out |-> out,
                         report |-> to_dict(report, processed_at, cfg)])
    /\ processed_at' \in Clock
    /\ encoding' = enc
    /\ pc' = "reading"
    /\ inp' = <<>>
    /\ out' = <<>>
    /\ spindle_on' = FALSE
    /\ last_theta_quant' = None
    /\ pending' = None
    /\ last_s_rpm' = None
    /\ report' = ReportCreate
    /\ dec' = None
    /\ inserted' = None
    /\ UNCHANGED <<cfg, newline_bytes, enc>>

ReadAgain ==
    /\ IsSome(prev_run)
    /\ Len(inp) < Len(Val(prev_run).inp)
    /\ ReadStep(Val(prev_run).inp[Len(inp) + 1].text,
                Val(prev_run).inp[Len(inp) + 1].term)

FinalizeAgain ==
    /\ IsSome(prev_run)
    /\ inp = Val(prev_run).inp
    /\ Finalize

InitTwice == InitWith({BcssConfig})

NextTwice ==
    \/ \E l \in NlCatalogue, t \in Terminators : ReadFirst(l, t)
    \/ FinalizeFirst
    \/ Rerun
    \/ ReadAgain
    \/ FinalizeAgain

SpecTwice == InitTwice /\ [][NextTwice]_vars

\* The ten-line file of test_e2e_tiny, read line by line with any terminators,
\* with angle inversion on (the default) and off.
InitTiny == InitWith({BcssConfig, CfgNoInvert})

ReadScripted ==
    /\ Len(inp) < Len(TinyFile)
    /\ \E t \in Terminators : ReadStep(TinyFile[Len(inp) + 1], t)

NextTiny ==
    \/ ReadScripted
    \/ Finalize

SpecTiny == InitTiny /\ [][NextTiny]_vars

(***************************************************************************)
\* the texts of the runs about the order of the steps within one line
SchedCatalogue ==
    {L_M3B12_3, L_M05, L_StopStartB, L_G1X1, L_B12_8, L_B13_1, L_G97S8000M03}

\* Files of LF-terminated lines with start, stop and B tokens sharing lines,
\* with angle inversion on (the default) and off.
InitSched == InitWith({BcssConfig, CfgNoInvert}) /\ newline_bytes = "\n"

NextSched ==
    \/ \E l \in SchedCatalogue : ReadLine(l, "\n")
    \/ Finalize

SpecSched == InitSched /\ [][NextSched]_vars

\* Files of LF-terminated lines with explicit S tokens met with the spindle
\* on and off, under the default configuration.
InitSpeed == InitWith({BcssConfig}) /\ newline_bytes = "\n"

NextSpeed ==
    \/ \E l \in SpeedCatalogue : ReadLine(l, "\n")
    \/ Finalize

SpecSpeed == InitSpeed /\ [][NextSpeed]_vars

\* Files of LF-terminated lines with B lines at the baseline angle, with the
\* baseline above and below the safety minimum angle.
InitRef == InitWith({CfgNoInvert, CfgLowRef}) /\ newline_bytes = "\n"

NextRef ==
    \/ \E l \in RefCatalogue : ReadLine(l, "\n")
    \/ Finalize

SpecRef == InitRef /\ [][NextRef]_vars

\* Files of one LF-terminated line, over every text of StripLines, under the
\* default configuration.
InitStrip == InitWith({BcssConfig}) /\ newline_bytes = "\n"

ReadOnly(raw_text) ==
    /\ inp = <<>>
    /\ ReadStep(raw_text, "\n")

NextStrip ==
    \/ \E l \in StripLines : ReadOnly(l)
    \/ Finalize

SpecStrip == InitStrip /\ [][NextStrip]_vars

(* Vocabulary of the properties.                                           *)
(***************************************************************************)
\* this step processed one more input line
Stepped == Len(inp') = Len(inp) + 1
\* the line processed by this step, and its tokens
CurLine == inp'[Len(inp')]
CurParsed == parse_line(inp'[Len(inp')].text)
\* the record fout holds for the line processed by this step
CurOut == [text |-> CurLine.text, nl |-> NewlineOf(CurLine.term), inserted |-> FALSE]

TextsOf(f) == [i \in 1..Len(f) |-> f[i].text]
OriginalLines(f) == SelectSeq(f, LAMBDA r : ~r.inserted)

\* the literal form S<integer>
IsSLiteral(t) ==
    /\ Len(t) >= 2
    /\ t[1] = "S"
    /\ \/ \A i \in 2..Len(t) : IsDigit(t[i])
       \/ Len(t) >= 3 /\ t[2] = "-" /\ \A i \in 3..Len(t) : IsDigit(t[i])
\* the integer of such a line
SValue(t) == IF t[2] = "-" THEN -IntOf(t, 3, Len(t) + 1) ELSE IntOf(t, 2, Len(t) + 1)

\* the spindle state after line k of lines, read off the tokens alone
RECURSIVE OnAfter(_, _)
OnAfter(lines, k) ==
    IF k = 0 THEN FALSE
    ELSE IF parse_line(lines[k].text).has_m05 THEN FALSE
    ELSE IF parse_line(lines[k].text).has_m03 THEN TRUE
    ELSE OnAfter(lines, k - 1)

\* line k carries a B angle and leaves the spindle on
IsBOnLine(lines, k) == IsSome(parse_line(lines[k].text).b_deg) /\ OnAfter(lines, k)
\* the internal angle of line k's B token, in tenths of a degree
ThetaAt(lines, k) ==
    IF cfg.invert_b_to_theta
    THEN Max2(0, 90 * AngleScale - Val(parse_line(lines[k].text).b_deg))
    ELSE Val(parse_line(lines[k].text).b_deg)
\* two angles in the same quantization step [k*step, (k+1)*step)
SameStep(a, b) ==
    IF cfg.theta_step_deg > 0
    THEN a \div cfg.theta_step_deg = b \div cfg.theta_step_deg
    ELSE a = b
\* line n is a B line (spindle on) whose angle lies in the same step as the
\* angle of the B line (spindle on) before it
RepeatsStep(lines, n) ==
    /\ n >= 1
    /\ IsBOnLine(lines, n)
    /\ \E j \in 1..(n - 1) :
           /\ IsBOnLine(lines, j)
           /\ \A k \in (j + 1)..(n - 1) : ~IsBOnLine(lines, k)
           /\ SameStep(ThetaAt(lines, j), ThetaAt(lines, n))

C2_Step ==
    /\ IsSome(pending') =>
           /\ Stepped
           /\ IsSome(CurParsed.b_deg)
           /\ spindle_on'
           /\ pending' = Some([theta_quant_deg |->
                                 quantize_theta(cfg, ThetaOfB(cfg, Val(CurParsed.b_deg)))])
           /\ \/ IsNone(last_theta_quant)
              \/ Val(pending').theta_quant_deg # Val(last_theta_quant)
    /\ IsSome(inserted') =>
           /\ Stepped
           /\ IsSome(pending)
           /\ spindle_on
           /\ IsSome(parse_line(inp[Len(inp)].text).b_deg)
           /\ ~out[Len(out)].inserted
           /\ out[Len(out)].text = inp[Len(inp)].text
           /\ Len(out') = Len(out) + 2
           /\ out'[Len(out) + 1].inserted
           /\ out'[Len(out) + 2] = CurOut

C2_InsertedOnlyAfterBChange == [][C2_Step]_vars

C2_Witness == IsSome(inserted) /\ Len(inp) >= 3 /\ IsSome(pending)

(***************************************************************************)
(* C3.  A line with a B angle that leaves the spindle off schedules no     *)
(* pending insertion, and no S line is written before a line that is       *)
(* processed while the spindle is off.                                     *)
(***************************************************************************)
C3_Step ==
    /\ Stepped /\ IsSome(CurParsed.b_deg) /\ ~spindle_on' => IsNone(pending')
    /\ Stepped /\ ~spindle_on => IsNone(inserted') /\ Len(out') = Len(out) + 1

C3_NoInsertionWhileSpindleOff == [][C3_Step]_vars

\* a B line after a stop, and a B line before the first start
C3_Witness ==
    /\ Len(inp) >= 3
    /\ ~spindle_on
    /\ IsSome(parse_line(inp[Len(inp)].text).b_deg)
    /\ ~parse_line(inp[Len(inp)].text).has_m05
    /\ OnAfter(inp, Len(inp) - 2)
    /\ IsSome(parse_line(inp[1].text).b_deg) /\ ~OnAfter(inp, 1)

(***************************************************************************)
(* C4.  A pending insertion resolved on a line that carries an S token     *)
(* outside comments writes no S line and adds exactly one to               *)
(* skipped_nextline_has_s; so an inserted S line is never followed by a    *)
(* line with an S token.                                                   *)
(***************************************************************************)
C4_Step ==
    Stepped /\ IsSome(pending) /\ spindle_on /\ IsSome(CurParsed.s_rpm) =>
        /\ IsNone(inserted')
        /\ out' = Append(out, CurOut)
        /\ report'.changes.skipped_nextline_has_s =
               report.changes.skipped_nextline_has_s + 1
        /\ report'.changes.inserted_s_lines = report.changes.inserted_s_lines

C4_NoSBeforeS ==
    \A k \in 1..Len(out) :
        out[k].inserted => k < Len(out) /\ IsNone(ParseText(out[k + 1].text).s_rpm)

C4_SkipWhenNextLineHasS == [](C4_NoSBeforeS) /\ [][C4_Step]_vars

\* a skip, and an S line written before a line whose only S is in a comment
C4_Witness ==
    /\ report.changes.skipped_nextline_has_s >= 1
    /\ report.changes.inserted_s_lines >= 1
    /\ IsSome(inserted)
    /\ inp[Len(inp)].text = L_CommentS

(***************************************************************************)
(* C5.  With s_min <= s_max the integer of every inserted S line lies in   *)
(* [s_min, s_max], and a decision's clamped flag is set exactly when its   *)
(* clamped speed differs from its rounded speed.                           *)
(***************************************************************************)
C5_InsertedSpeedWithinClamp ==
    cfg.s_min_rpm <= cfg.s_max_rpm =>
        /\ \A k \in 1..Len(out) :
               out[k].inserted =>
                   /\ SValue(out[k].text) >= cfg.s_min_rpm
                   /\ SValue(out[k].text) <= cfg.s_max_rpm
        /\ IsSome(dec) =>
               (Val(dec).clamped <=> Val(dec).rpm_clamped # Val(dec).rpm_rounded)

\* an S line that was clamped down to s_max, after one clamped up to s_min
C5_Witness ==
    /\ cfg.s_min_rpm <= cfg.s_max_rpm
    /\ IsSome(inserted) /\ IsSome(dec)
    /\ Val(dec).clamped /\ Val(dec).rpm_rounded > cfg.s_max_rpm
    /\ Val(inserted) = cfg.s_max_rpm
    /\ \E k \in 1..Len(out) : out[k].inserted /\ SValue(out[k].text) = cfg.s_min_rpm
(***************************************************************************)
(* C6.  A pending insertion resolved (spindle on) on a line without an S   *)
(* token computes the speed of the pending angle and writes an S line iff  *)
(* no speed is recorded or |speed - last speed| >= deadband; otherwise     *)
(* skipped_deadband grows by one and only the line itself is written.      *)
(***************************************************************************)
C6_Step ==
    Stepped /\ IsSome(pending) /\ spindle_on /\ IsNone(CurParsed.s_rpm) =>
        /\ dec' = Some(compute_s_for_theta(cfg, Val(pending).theta_quant_deg))
        /\ IsSome(inserted') <=>
               \/ IsNone(last_s_rpm)
               \/ Abs(Val(dec').rpm_clamped - Val(last_s_rpm)) >= cfg.deadband_rpm
        /\ IsSome(inserted') =>
               /\ inserted' = Some(Val(dec').rpm_clamped)
               /\ out' = out \o <<[text |-> inserted_text(Val(dec').rpm_clamped),
                                   nl |-> CurOut.nl, inserted |-> TRUE], CurOut>>
               /\ report'.changes.inserted_s_lines = report.changes.inserted_s_lines + 1
               /\ report'.changes.skipped_deadband = report.changes.skipped_deadband
        /\ IsNone(inserted') =>
               /\ out' = Append(out, CurOut)
               /\ report'.changes.inserted_s_lines = report.changes.inserted_s_lines
               /\ report'.changes.skipped_deadband = report.changes.skipped_deadband + 1

C6_DeadbandDecision == [][C6_Step]_vars

\* an insertion at exactly the deadband, after a skip
C6_Witness ==
    /\ IsSome(inserted) /\ Len(inp) >= 2
    /\ IsSome(parse_line(inp[Len(inp) - 1].text).b_deg)
    /\ \E k \in 1..(Len(inp) - 1) :
           /\ IsSome(parse_line(inp[k].text).s_rpm)
           /\ Abs(Val(inserted) - Val(parse_line(inp[k].text).s_rpm)) = cfg.deadband_rpm
    /\ cfg.deadband_rpm > 0

(***************************************************************************)
(* C7.  A pending insertion resolved with |speed - last speed| < deadband  *)
(* writes no S line and the resolution leaves the last-speed memory as it  *)
(* was; after the whole line the memory is still that speed, unless the    *)
(* line's own stop token cleared it.                                       *)
(***************************************************************************)
C7_Step ==
    (/\ Stepped /\ IsSome(pending) /\ spindle_on /\ IsNone(CurParsed.s_rpm)
     /\ IsSome(last_s_rpm)
     /\ Abs(compute_s_for_theta(cfg, Val(pending).theta_quant_deg).rpm_clamped
            - Val(last_s_rpm)) < cfg.deadband_rpm)
    =>
        /\ IsNone(inserted')
        /\ out' = Append(out, CurOut)
        /\ ResolvePending(cfg, Injector, CurParsed).last_s_rpm = last_s_rpm
        /\ last_s_rpm' = IF CurParsed.has_m05 THEN None ELSE last_s_rpm

C7_DeadbandKeepsLastSpeed == [][C7_Step]_vars

\* a skip whose computed speed differs from the recorded speed, which stays
C7_Witness ==
    /\ report.changes.skipped_deadband >= 1
    /\ IsNone(inserted)
    /\ IsSome(last_s_rpm)
    /\ IsSome(dec) /\ Val(dec).rpm_clamped # Val(last_s_rpm)

(***************************************************************************)
(* C8.  The last-speed memory is unset whenever the spindle is off, a stop *)
(* token clears it, and a pending insertion resolved (on a line without S) *)
(* after a stop and a later start, with no explicit S adopted and no S     *)
(* line written since the stop, is written whatever the deadband and the   *)
(* speeds recorded before the stop.                                        *)
(***************************************************************************)
\* line s is a stop, and since then no explicit S was adopted and no S line written
QuietSinceStop(s) ==
    /\ parse_line(inp[s].text).has_m05
    /\ \A k \in (s + 1)..Len(inp) :
           ~(IsSome(parse_line(inp[k].text).s_rpm) /\ OnAfter(inp, k))
    /\ \A k \in (Len(out) - (Len(inp) - s) + 1)..Len(out) : ~out[k].inserted

C8_Step ==
    /\ Stepped /\ CurParsed.has_m05 => ~spindle_on' /\ IsNone(last_s_rpm')
    /\ (/\ Stepped /\ IsSome(pending) /\ spindle_on /\ IsNone(CurParsed.s_rpm)
        /\ \E s \in 1..Len(inp) : QuietSinceStop(s))
       => IsSome(inserted')

C8_DeadbandNeverCrossesStop ==
    [](~spindle_on => IsNone(last_s_rpm)) /\ [][C8_Step]_vars

\* an S line written after a stop and a start, within the deadband of the
\* speed recorded before the stop
C8_Witness ==
    /\ IsSome(inserted)
    /\ \E s \in 2..(Len(inp) - 1) :
           /\ parse_line(inp[s].text).has_m05
           /\ \A k \in (s + 1)..Len(inp) : IsNone(parse_line(inp[k].text).s_rpm)
           /\ \E k \in 1..(s - 1) :
                  /\ IsSome(parse_line(inp[k].text).s_rpm) /\ OnAfter(inp, k)
                  /\ Abs(Val(parse_line(inp[k].text).s_rpm) - Val(inserted))
                         < cfg.deadband_rpm

(***************************************************************************)
(* C9.  A B line (spindle on) whose angle lies in the same quantization    *)
(* step as the angle of the previous B line (spindle on) schedules no      *)
(* pending insertion, and no S line is written before the line after it.   *)
(***************************************************************************)
C9_Step ==
    /\ Stepped /\ RepeatsStep(inp', Len(inp')) => IsNone(pending')
    /\ Stepped /\ RepeatsStep(inp, Len(inp)) => IsNone(inserted')

C9_SameStepSchedulesNothing == [][C9_Step]_vars

\* two different B values in one step, the second followed by another line
C9_Witness ==
    /\ Len(inp) >= 3
    /\ RepeatsStep(inp, Len(inp) - 1)
    /\ \E j \in 1..(Len(inp) - 2) :
           /\ IsBOnLine(inp, j)
           /\ ThetaAt(inp, j) # ThetaAt(inp, Len(inp) - 1)
           /\ SameStep(ThetaAt(inp, j), ThetaAt(inp, Len(inp) - 1))
    /\ cfg.theta_step_deg > 0

(***************************************************************************)
(* C10.  Round trip: for an input without any B token, whatever its        *)
(* terminators, the bytes written are the bytes read and                   *)
(* inserted_s_lines = 0.                                                   *)
(***************************************************************************)
\* the bytes of a file: each line's text followed by its terminator
RECURSIVE BytesFrom(_, _, _)
BytesFrom(f, i, nl) ==
    IF i > Len(f) THEN <<>>
    ELSE f[i].text \o (IF f[i][nl] = "" THEN <<>> ELSE <<f[i][nl]>>) \o BytesFrom(f, i + 1, nl)

InputBytes == BytesFrom(inp, 1, "term")
OutputBytes == BytesFrom(out, 1, "nl")

NoBToken == \A i \in 1..Len(inp) : IsNone(parse_line(inp[i].text).b_deg)

C10_RoundTripWithoutB ==
    pc = "done" /\ NoBToken =>
        OutputBytes = InputBytes /\ report.changes.inserted_s_lines = 0

(***************************************************************************)
(* C11.  Newline preservation: the terminator written for every input line *)
(* (CRLF, LF, or none on the final line) is that line's own terminator.    *)
(***************************************************************************)
C11_TerminatorPreserved ==
    \A k \in 1..Len(inp) :
        k <= Len(OriginalLines(out)) => OriginalLines(out)[k].nl = inp[k].term

(***************************************************************************)
(* C12.  An inserted S line carries the terminator written for the line it *)
(* precedes, which is that line's own terminator whenever it has one       *)
(* (else the newline written for an unterminated final line).              *)
(***************************************************************************)
\* the input line that record k of the output was written for
OrigIndex(k) == Cardinality({j \in 1..k : ~out[j].inserted})

InsertedAt == {k \in 1..Len(out) : out[k].inserted}

C13_TinyFileOneInsertion ==
    pc = "done" /\ TextsOf(inp) = TinyFile =>
        /\ report.changes.inserted_s_lines = 1
        /\ Cardinality(InsertedAt) = 1
        /\ \A k \in InsertedAt :
               /\ k < Len(out)
               /\ out[k + 1].text = L_G1X3
               /\ ~out[k + 1].inserted
               /\ out[k - 1].text = L_B13_1
               /\ out[k].text = inserted_text(IF cfg.invert_b_to_theta THEN 8060 ELSE 7390)

\* the file of the test, every line ended by CRLF, inversion off
C13_Witness ==
    /\ pc = "done"
    /\ TextsOf(inp) = TinyFile
    /\ \A i \in 1..Len(inp) : inp[i].term = "\r\n"
    /\ ~cfg.invert_b_to_theta
    /\ report.changes.inserted_s_lines = 1
    /\ report.changes.skipped_deadband = 1

(***************************************************************************)
(* C14.  End of file: finalize writes nothing, empties the pending slot    *)
(* and counts a discarded entry once; pending_at_eof is 0 or 1, and it is  *)
(* 1 after finalize exactly when the last input line is a B line (spindle  *)
(* on) that scheduled a pending insertion.                                 *)
(***************************************************************************)
\* the last line read is a B line (spindle on) in a new quantization step
SchedulesAtEnd ==
    /\ Len(inp) >= 1
    /\ IsBOnLine(inp, Len(inp))
    /\ ~RepeatsStep(inp, Len(inp))

C14_AtEnd ==
    /\ report.changes.pending_at_eof \in {0, 1}
    /\ pc # "done" => report.changes.pending_at_eof = 0
    /\ pc = "done" => IsNone(pending)
    /\ pc = "done" => (report.changes.pending_at_eof = 1 <=> SchedulesAtEnd)

C14_Step ==
    pc # "done" /\ pc' = "done" =>
        /\ out' = out
        /\ IsNone(inserted')
        /\ report'.changes.inserted_s_lines = report.changes.inserted_s_lines
        /\ report'.changes.pending_at_eof = IF IsSome(pending) THEN 1 ELSE 0
        /\ IsSome(pending) <=> SchedulesAtEnd

C14_PendingAtEndOfFile == [](C14_AtEnd) /\ [][C14_Step]_vars

\* a file that ends on its only B change: nothing inserted, one entry dropped
C14_Witness ==
    /\ pc = "done"
    /\ report.changes.pending_at_eof = 1
    /\ report.changes.inserted_s_lines = 0
    /\ report.detect.b_lines = 1
    /\ Len(inp) >= 2
    /\ IsSome(parse_line(inp[Len(inp)].text).b_deg)

(***************************************************************************)
(* C15.  Clamp correctness, as computed: a decision whose ROUNDED speed is *)
(* above s_max yields exactly s_max and adds one to clamped_count; a raw   *)
(* speed above s_max that rounds to a value inside [s_min, s_max] is kept  *)
(* as rounded and is not counted.  clamped_count grows by one exactly for  *)
(* a decision flagged as clamped.                                          *)
(***************************************************************************)
\* q + r/d > bound, for the quotient md of a raw speed
QuotientAbove(md, bound) == md.q > bound \/ (md.q = bound /\ md.r > 0)

\* the raw (unrounded) speed is above bound
RawAbove(rpm_raw, bound) ==
    IF rpm_raw.mul >= RpmHuge THEN TRUE
    ELSE QuotientAbove(MulDiv(rpm_raw.mul, rpm_raw.num, rpm_raw.den), bound)

C15_Step ==
    Stepped /\ IsSome(dec') =>
        /\ report'.changes.clamped_count =
               report.changes.clamped_count + (IF Val(dec').clamped THEN 1 ELSE 0)
        /\ Val(dec').rpm_rounded > cfg.s_max_rpm =>
               /\ Val(dec').rpm_clamped = cfg.s_max_rpm
               /\ Val(dec').clamped
        /\ (/\ RawAbove(Val(dec').rpm_raw, cfg.s_max_rpm)
            /\ Val(dec').rpm_rounded <= cfg.s_max_rpm
            /\ Val(dec').rpm_rounded >= cfg.s_min_rpm)
           => /\ Val(dec').rpm_clamped = Val(dec').rpm_rounded
              /\ ~Val(dec').clamped

C15_ClampOfRoundedSpeed == [][C15_Step]_vars

\* the statement as claimed: a raw speed above s_max yields s_max, counted
C15_Step_AsClaimed ==
    Stepped /\ IsSome(dec') /\ RawAbove(Val(dec').rpm_raw, cfg.s_max_rpm) =>
        /\ Val(dec').rpm_clamped = cfg.s_max_rpm
        /\ report'.changes.clamped_count = report.changes.clamped_count + 1

C15_ClampOfRawSpeed == [][C15_Step_AsClaimed]_vars

\* after a counted clamp, a raw speed above s_max that rounds to s_max
C15_Witness ==
    /\ IsSome(dec)
    /\ RawAbove(Val(dec).rpm_raw, cfg.s_max_rpm)
    /\ Val(dec).rpm_rounded = cfg.s_max_rpm
    /\ ~Val(dec).clamped
    /\ report.changes.clamped_count >= 1
    /\ cfg.s_min_rpm <= cfg.s_max_rpm

(***************************************************************************)
(* C17.  The pending slot holds at most one entry, and only the entry      *)
(* scheduled by the line just processed; an entry present when a line is   *)
(* processed is resolved by that line in exactly one way (S line written,  *)
(* skipped for an S token, skipped by the deadband), an entry present at   *)
(* the end is dropped, and every scheduled entry is accounted for once.    *)
(***************************************************************************)
\* the lines read so far that schedule an insertion
SchedulingLines == {k \in 1..Len(inp) : IsBOnLine(inp, k) /\ ~RepeatsStep(inp, k)}

\* the resolutions counted so far
Resolved(r) ==
    r.changes.inserted_s_lines + r.changes.skipped_nextline_has_s
    + r.changes.skipped_deadband + r.changes.pending_at_eof

C17_Slot ==
    /\ IsSome(pending) =>
           /\ pc # "done"
           /\ spindle_on
           /\ Len(inp) \in SchedulingLines
           /\ pending = Some([theta_quant_deg |->
                                quantize_theta(cfg, ThetaAt(inp, Len(inp)))])
    /\ Cardinality(SchedulingLines) = Resolved(report) + (IF IsSome(pending) THEN 1 ELSE 0)

C17_Step ==
    /\ Stepped /\ IsSome(pending) =>
           /\ Resolved(report') = Resolved(report) + 1
           /\ report'.changes.pending_at_eof = report.changes.pending_at_eof
    /\ Stepped /\ IsNone(pending) => Resolved(report') = Resolved(report)

C17_PendingResolvedByNextLine == [](C17_Slot) /\ [][C17_Step]_vars

\* an entry resolved by a B line that schedules the next entry
C17_Witness ==
    /\ Len(inp) >= 3
    /\ IsSome(pending)
    /\ (Len(inp) - 1) \in SchedulingLines
    /\ Resolved(report) >= 2
    /\ IsSome(inserted)

(***************************************************************************)
(* C18.  The spindle state after a line is a function of the line's tokens *)
(* and the state before it: off if the line has a stop token (also when it *)
(* has a start token, in either order), else on if it has a start token,   *)
(* else unchanged; a stop token leaves the last-speed memory unset.        *)
(***************************************************************************)
C18_Step ==
    Stepped =>
        /\ CurParsed.has_m03 /\ ~CurParsed.has_m05 => spindle_on'
        /\ CurParsed.has_m05 => ~spindle_on' /\ IsNone(last_s_rpm')
        /\ ~CurParsed.has_m03 /\ ~CurParsed.has_m05 => spindle_on' = spindle_on
        /\ CurParsed.has_m03 /\ CurParsed.has_m05 => ~spindle_on' /\ IsNone(last_s_rpm')

C18_SpindleTransitions == [][C18_Step]_vars

\* start-then-stop on one line with the spindle on and a speed recorded,
\* after a stop-then-start line met with the spindle on
C18_Witness ==
    /\ Len(inp) >= 3
    /\ inp[Len(inp)].text = L_StartStop
    /\ OnAfter(inp, Len(inp) - 1)
    /\ IsSome(parse_line(inp[Len(inp) - 1].text).s_rpm)
    /\ ~spindle_on
    /\ IsNone(last_s_rpm)
    /\ \E k \in 2..(Len(inp) - 1) : inp[k].text = L_StopStartB /\ OnAfter(inp, k - 1)

(***************************************************************************)
(* C20.  With a quantization step <= 0 every angle is its own quantized    *)
(* value, so a B line (spindle on) schedules an insertion exactly when its *)
(* angle differs from the last one; with a rounding unit <= 0 the speed is *)
(* rounded to the nearest integer (unit 1); such runs end normally.        *)
(***************************************************************************)
C20_Step ==
    Stepped =>
        /\ (cfg.theta_step_deg <= 0 /\ IsSome(CurParsed.b_deg) /\ spindle_on') =>
               /\ last_theta_quant' = Some(ThetaOfB(cfg, Val(CurParsed.b_deg)))
               /\ IsSome(pending') <=>
                      \/ IsNone(last_theta_quant)
                      \/ Val(last_theta_quant) # ThetaOfB(cfg, Val(CurParsed.b_deg))
               /\ IsSome(pending') =>
                      Val(pending').theta_quant_deg = ThetaOfB(cfg, Val(CurParsed.b_deg))
        /\ (cfg.s_round_unit_rpm <= 0 /\ IsSome(dec')) =>
               /\ Val(dec').rpm_rounded = RoundToUnit(Val(dec').rpm_raw, 1)
               /\ Val(dec').theta_used_deg =
                      Max2(Val(pending).theta_quant_deg, cfg.theta_min_deg)

C20_NonPositiveStepAndUnit == [][C20_Step]_vars

\* a finished run with negative step and unit: an angle off the degree grid
\* was used as it is and a speed off the tens was written
C20_Witness ==
    /\ pc = "done"
    /\ cfg.theta_step_deg < 0
    /\ cfg.s_round_unit_rpm < 0
    /\ IsSome(last_theta_quant) /\ Val(last_theta_quant) % AngleScale # 0
    /\ \E k \in 1..Len(out) : out[k].inserted /\ SValue(out[k].text) % 10 # 0

(***************************************************************************)
(* C16.  Determinism, as computed: two runs on the same input bytes with   *)
(* the same configuration write the same output and produce reports that   *)
(* agree in everything but processed_at, the time the run started.         *)
(***************************************************************************)
\* the report of the run in progress, as serialized
ReportDict == to_dict(report, processed_at, cfg)

C19_NeverFatal ==
    (enc = DetectEncoding(inp) /\ newline_bytes = DetectNewline(inp)) =>
        /\ pc # "raised"
        /\ Len(OriginalLines(out)) = Len(inp)

(***************************************************************************)
(* C21.  Within one line the pending insertion is resolved first, then the *)
(* spindle state is updated, then a new insertion is scheduled:            *)
(* (a) a line with a start token (and no stop token) and a B angle whose   *)
(* quantized value differs from the last one, met with the spindle off,    *)
(* leaves a pending insertion for that quantized angle; (b) a stop token   *)
(* on the line that resolves a pending insertion does not change the       *)
(* decision: the S line the deadband check admits is written immediately   *)
(* before the stop line; (c) a line with a stop token and a B angle leaves *)
(* no pending insertion.                                                   *)
(***************************************************************************)
\* the quantized internal angle of the B token of the line of this step
CurThetaQ == quantize_theta(cfg, ThetaOfB(cfg, Val(CurParsed.b_deg)))

C21_Step ==
    Stepped =>
        /\ /\ ~spindle_on
           /\ CurParsed.has_m03 /\ ~CurParsed.has_m05
           /\ IsSome(CurParsed.b_deg)
           /\ last_theta_quant # Some(CurThetaQ)
           => pending' = Some([theta_quant_deg |-> CurThetaQ])
        /\ /\ IsSome(pending) /\ spindle_on
           /\ CurParsed.has_m05
           /\ IsNone(CurParsed.s_rpm)
           => \E d \in {compute_s_for_theta(cfg, Val(pending).theta_quant_deg)} :
                  IF should_insert(last_s_rpm, d.rpm_clamped, cfg)
                  THEN /\ inserted' = Some(d.rpm_clamped)
                       /\ out' = out \o <<[text |-> inserted_text(d.rpm_clamped),
                                           nl |-> CurOut.nl, inserted |-> TRUE],
                                          CurOut>>
                  ELSE /\ IsNone(inserted')
                       /\ out' = Append(out, CurOut)
        /\ CurParsed.has_m05 /\ IsSome(CurParsed.b_deg) => IsNone(pending')

C21_OrderWithinLine == [][C21_Step]_vars

\* M3B12.3 met with the spindle off, its S line written before the M05 that
\* follows, then M05B14.0M03
C21_Witness ==
    /\ Len(inp) = 3
    /\ inp[1].text = L_M3B12_3
    /\ inp[2].text = L_M05
    /\ inp[3].text = L_StopStartB
    /\ Len(out) = 4
    /\ out[1].text = L_M3B12_3
    /\ out[2].inserted
    /\ out[3].text = L_M05
    /\ IsNone(pending)
    /\ ~spindle_on

(***************************************************************************)
(* C22.  An explicit S token on a line that leaves the spindle on becomes  *)
(* the last-speed memory and is folded into the report's min/max; on a     *)
(* line that leaves the spindle off the token changes neither (the memory  *)
(* is what the line's stop token, if any, leaves of it).  So s_range is    *)
(* the min and the max over the inserted speeds and the adopted explicit   *)
(* speeds, and is unset iff there are none.                                *)
(***************************************************************************)
\* the speeds of the inserted lines written so far
InsertedSpeeds == {SValue(out[k].text) : k \in {j \in 1..Len(out) : out[j].inserted}}
\* the explicit speeds of the lines read so far that left the spindle on
AdoptedSpeeds ==
    {Val(parse_line(inp[k].text).s_rpm) :
        k \in {j \in 1..Len(inp) : IsSome(parse_line(inp[j].text).s_rpm) /\ OnAfter(inp, j)}}

C22_Range ==
    pc # "raised" =>
        \E speeds \in {InsertedSpeeds \cup AdoptedSpeeds} :
            IF speeds = {}
            THEN IsNone(report.s_range.s_min) /\ IsNone(report.s_range.s_max)
            ELSE /\ IsSome(report.s_range.s_min) /\ IsSome(report.s_range.s_max)
                 /\ Val(report.s_range.s_min) \in speeds
                 /\ Val(report.s_range.s_max) \in speeds
                 /\ \A s \in speeds : Val(report.s_range.s_min) <= s
                                      /\ s <= Val(report.s_range.s_max)

C22_Step ==
    Stepped /\ IsSome(CurParsed.s_rpm) =>
        IF spindle_on'
        THEN /\ last_s_rpm' = CurParsed.s_rpm
             /\ report'.s_range = SRangeUpdate(report.s_range, Val(CurParsed.s_rpm))
        ELSE /\ last_s_rpm' = IF CurParsed.has_m05 THEN None ELSE last_s_rpm
             /\ report'.s_range = report.s_range

C22_ExplicitSAdopted == [](C22_Range) /\ [][C22_Step]_vars

\* S8000 adopted with the start token, an S line inserted above it, then
\* S7000 on a stop line: the range is 8000..8060 and the memory is unset
C22_Witness ==
    /\ Len(inp) = 4
    /\ inp[4].text = L_S7000M05
    /\ InsertedSpeeds # {}
    /\ AdoptedSpeeds # {}
    /\ \A s \in InsertedSpeeds : Val(report.s_range.s_max) = s
    /\ Val(report.s_range.s_min) \in AdoptedSpeeds
    /\ Val(report.s_range.s_min) > 7000
    /\ Val(report.s_range.s_min) < Val(report.s_range.s_max)
    /\ IsNone(last_s_rpm)

(***************************************************************************)
(* C23.  In relative mode the baseline angle is floored to the safety      *)
(* minimum angle before its sine is taken, so the speed computed for the   *)
(* floored baseline angle is S_ref after rounding and clamping, also when  *)
(* the baseline lies below the safety minimum.                             *)
(***************************************************************************)
\* the baseline angle after the safety floor
FlooredBaseline == Max2(_theta_ref_used(cfg), cfg.theta_min_deg)
\* S_ref after rounding and clamping
PostprocessedSRef ==
    _postprocess(cfg, FlooredBaseline,
                 [mul |-> cfg.s_ref_rpm, num |-> 1, den |-> 1]).rpm_clamped

C23_BaselineGivesSRef ==
    /\ IsSome(dec)
    /\ cfg.mode = "relative"
    /\ Val(dec).theta_used_deg = FlooredBaseline
    => Val(dec).rpm_clamped = PostprocessedSRef

(***************************************************************************)
(* C24.  Scheduling rule: a line with a B angle, scheduled with the        *)
(* spindle on, leaves a pending insertion iff its quantized angle differs  *)
(* from the last quantized angle seen (or none has been seen), and sets    *)
(* the last quantized angle to its own; every other line (start and stop   *)
(* lines, B lines with the spindle off) leaves the last quantized angle    *)
(* unchanged.  So a B angle after a stop/start cycle that quantizes to the *)
(* value of the last B angle before the stop schedules nothing.            *)
(***************************************************************************)
\* a stop token on one of the lines j+1 .. n-1
StopBetween(lines, j, n) ==
    \E k \in (j + 1)..(n - 1) : parse_line(lines[k].text).has_m05

C24_Step ==
    Stepped =>
        /\ IF IsSome(CurParsed.b_deg) /\ spindle_on'
           THEN /\ last_theta_quant' = Some(CurThetaQ)
                /\ pending' = IF last_theta_quant # Some(CurThetaQ)
                              THEN Some([theta_quant_deg |-> CurThetaQ])
                              ELSE None
           ELSE /\ last_theta_quant' = last_theta_quant
                /\ IsNone(pending')
        /\ \A j \in 1..Len(inp) :
               /\ IsBOnLine(inp', j)
               /\ IsBOnLine(inp', Len(inp'))
               /\ \A k \in (j + 1)..Len(inp) : ~IsBOnLine(inp', k)
               /\ StopBetween(inp', j, Len(inp'))
               /\ quantize_theta(cfg, ThetaAt(inp', j)) = CurThetaQ
               => IsNone(pending')

C24_SchedulingRule == [][C24_Step]_vars

\* B12.3 with the spindle on, a stop, a start, then B12.8: same quantized
\* angle, nothing scheduled
C24_Witness ==
    /\ Len(inp) = 4
    /\ IsBOnLine(inp, 1)
    /\ parse_line(inp[2].text).has_m05
    /\ IsNone(parse_line(inp[2].text).b_deg)
    /\ parse_line(inp[3].text).has_m03
    /\ inp[4].text = L_B12_8
    /\ ThetaAt(inp, 1) # ThetaAt(inp, 4)
    /\ spindle_on
    /\ last_theta_quant = Some(quantize_theta(cfg, ThetaAt(inp, 4)))
    /\ IsNone(pending)
    /\ pc = "reading"

(***************************************************************************)
(* C25.  Comment stripping: the characters inside a parenthesized span are *)
(* dropped before the tokens are recognized, so a line whose M, S or B     *)
(* letters all lie inside comments has no start, stop, S or B token; a ')' *)
(* outside any comment is dropped and the text is as if it were absent; a  *)
(* '(' that is never closed drops the rest of the line; the stripped text  *)
(* has no parenthesis; stripping a stripped text changes nothing.          *)
(***************************************************************************)
\* the number of characters ch among s[j..k]
CountIn(s, j, k, ch) == Cardinality({i \in j..k : s[i] = ch})
\* position i (or the end of the text, i = Len(s) + 1) lies inside a
\* parenthesized span: some stretch ending just before i opens more than it closes
Inside(s, i) ==
    \E j \in 1..(i - 1) : CountIn(s, j, i - 1, "(") > CountIn(s, j, i - 1, ")")
\* the positions of the characters outside every comment
Outside(s) == {i \in 1..Len(s) : s[i] \notin {"(", ")"} /\ ~Inside(s, i)}
\* the characters at the positions ps of s, in order
Pick(s, ps) ==
    [k \in 1..Cardinality(ps) |->
        s[CHOOSE p \in ps : Cardinality({q \in ps : q <= p}) = k]]
\* s without its character at position i
Without(s, i) == SubSeq(s, 1, i - 1) \o SubSeq(s, i + 1, Len(s))

C25_Text(s, core, parsed) ==
    /\ core = Pick(s, Outside(s))
    /\ (\A i \in 1..Len(s) : s[i] = "M" => Inside(s, i))
           => ~parsed.has_m03 /\ ~parsed.has_m05 /\ ~spindle_on
    /\ (\A i \in 1..Len(s) : s[i] = "S" => Inside(s, i))
           => IsNone(parsed.s_rpm) /\ IsNone(last_s_rpm)
    /\ (\A i \in 1..Len(s) : s[i] = "B" => Inside(s, i))
           => IsNone(parsed.b_deg) /\ IsNone(last_theta_quant)
    /\ \A i \in 1..Len(s) :
           s[i] = ")" /\ ~Inside(s, i) => core = strip_paren_comments(Without(s, i))
    /\ \A i \in 1..Len(s) :
           /\ s[i] = "(" /\ ~Inside(s, i)
           /\ \A k \in (i + 1)..(Len(s) + 1) : Inside(s, k)
           => core = strip_paren_comments(SubSeq(s, 1, i - 1))
    /\ \A k \in 1..Len(core) : core[k] \notin {"(", ")"}
    /\ strip_paren_comments(core) = core

C25_CommentStripping ==
    Len(inp) >= 1 =>
        C25_Text(inp[1].text, strip_paren_comments(inp[1].text), parse_line(inp[1].text))

\* the one-line file "(M3)" is converted with the spindle off throughout
C25_Witness ==
    /\ pc = "done"
    /\ Len(inp) = 1
    /\ inp[1].text = <<"(", "M", "3", ")">>
    /\ ~spindle_on
    /\ out = <<[text |-> inp[1].text, nl |-> "\n", inserted |-> FALSE]>>
    /\ report.detect.spindle_on_lines = 0

(***************************************************************************)
(* C26.  Between two lines and at the end of the input a pending insertion *)
(* exists only if the spindle is on, so a pending insertion never meets a  *)
(* spindle that is off when it is to be resolved; and every pending        *)
(* insertion that leaves the slot is counted: the line after it, or        *)
(* finalize, adds one to exactly one of inserted_s_lines,                  *)
(* skipped_nextline_has_s, skipped_deadband, pending_at_eof.               *)
(***************************************************************************)
\* the number of pending insertions the report r accounts for
Accounted(r) ==
    r.changes.inserted_s_lines + r.changes.skipped_nextline_has_s
    + r.changes.skipped_deadband + r.changes.pending_at_eof

C26_Step ==
    IsSome(pending) /\ (Stepped \/ pc' = "done") =>
        /\ Accounted(report') = Accounted(report) + 1
        /\ pending' # pending \/ IsSome(CurParsed.b_deg)

C26_PendingOnlyWhileOn ==
    [](IsSome(pending) => spindle_on) /\ [][C26_Step]_vars

\* a pending insertion resolved by a line with a stop token, a B angle and a
\* start token: the S line is written and counted, nothing is pending, the
\* spindle is off
C26_Witness ==
    /\ Len(inp) = 2
    /\ inp[2].text = L_StopStartB
    /\ IsBOnLine(inp, 1)
    /\ IsSome(inserted)
    /\ Accounted(report) = 1
    /\ IsNone(pending)
    /\ ~spindle_on

(***************************************************************************)
(* C27.  Accounting identity: the number of pending insertions scheduled   *)
(* so far is inserted_s_lines + skipped_nextline_has_s + skipped_deadband  *)
(* + pending_at_eof, plus one while an entry is pending (none is after     *)
(* finalize); clamped_count and theta_min_applied_count are each at most   *)
(* inserted_s_lines + skipped_deadband.                                    *)
(***************************************************************************)
C27_AccountingIdentity ==
    pc # "raised" =>
        /\ Cardinality(SchedulingLines)
               = Accounted(report) + (IF IsSome(pending) THEN 1 ELSE 0)
        /\ pc = "done" => IsNone(pending)
        /\ report.changes.clamped_count
               <= report.changes.inserted_s_lines + report.changes.skipped_deadband
        /\ report.changes.theta_min_applied_count
               <= report.changes.inserted_s_lines + report.changes.skipped_deadband
        /\ report.changes.pending_at_eof <= 1

\* a finished run with three scheduled insertions: one inserted, one
\* suppressed by the deadband, one pending at the end, the first two clamped
C27_Witness ==
    /\ pc = "done"
    /\ Cardinality(SchedulingLines) = 3
    /\ report.changes.inserted_s_lines = 1
    /\ report.changes.skipped_deadband = 1
    /\ report.changes.pending_at_eof = 1
    /\ report.changes.clamped_count = 2

(***************************************************************************)
(* C28.  The report agrees with the output: after a conversion total_lines *)
(* is the number of input lines, inserted_s_lines is the number of S lines *)
(* inserted into the output, the output has total_lines + inserted_s_lines *)
(* lines, and spindle_on_lines is the number of lines that leave the       *)
(* spindle on (a start line is counted, a stop line is not).               *)
(***************************************************************************)
C28_ReportAgreesWithOutput ==
    pc = "done" =>
        /\ report.detect.total_lines = Len(inp)
        /\ report.changes.inserted_s_lines = Cardinality(InsertedAt)
        /\ Len(out) = report.detect.total_lines + report.changes.inserted_s_lines
        /\ report.detect.spindle_on_lines
               = Cardinality({k \in 1..Len(inp) : OnAfter(inp, k)})

\* a finished run of four lines with a start line, an inserted S line and a
\* stop line: two lines leave the spindle on
C28_Witness ==
    /\ pc = "done"
    /\ Len(inp) = 4
    /\ Len(out) = 5
    /\ report.changes.inserted_s_lines = 1
    /\ parse_line(inp[1].text).has_m03
    /\ parse_line(inp[3].text).has_m05
    /\ report.detect.spindle_on_lines = 2

=============================================================================
